---- MODULE Spec2Model ----
(***************************************************************************)
(* A model of src/src/index.ts (lines 1-171): the Cloudflare worker that   *)
(* maps  <prefix>/metadata/<rest>  onto the fixed upstream host and, for   *)
(* "?direct" requests on a .json path, redirects to the first tar.gz/zip   *)
(* url of the upstream JSON document.                                      *)
(*                                                                         *)
(* Strings the code takes apart (paths, url values) are sequences of       *)
(* tokens: "/" is a token of its own, so indexOf("/metadata/") is a        *)
(* search for <<"/", "metadata", "/">>.  Strings the code only compares or *)
(* concatenates (json paths, keys, messages) are TLA+ strings.             *)
(***************************************************************************)
EXTENDS Integers, Sequences, FiniteSets, TLC

VARIABLES
    \* the handler, one slot per request in flight
    active,         \* the requests the runtime has handed to the handler
    request,        \* request[r]: the inbound Request
    pc,             \* where request r's invocation of fetch() stands
    url,            \* local `url` (line 92)
    upstreamUrl,    \* local `upstreamUrl` (lines 93, 109)
    upstreamRes,    \* local `upstreamRes` (line 111)
    fetches,        \* the upstream requests invocation r has issued, in order
    answers,        \* what the upstream answered to r's own fetch and body read
    trace,          \* the steps invocation r has run, in order
    outcome,        \* what the caller of fetch() gets: a response or a throw
    \* buildUpstreamMetadataUrl on its own
    inbound, built,
    \* findFirstDirectMatch on its own (a whole call)
    doc, found,
    \* findFirstDirectMatch step by step (the recursion of walk unfolded)
    wheap, wcall, wstack, wret, wseen, wvisits, wresult

hvars == <<active, request, pc, url, upstreamUrl, upstreamRes, fetches, answers, trace, outcome>>
bvars == <<inbound, built>>
mvars == <<doc, found>>
wvars == <<wheap, wcall, wstack, wret, wseen, wvisits, wresult>>
vars == <<hvars, bvars, mvars, wvars>>

\* null / undefined / "not assigned yet"
Null == [kind |-> "null"]

(***************************************************************************)
(* Bounds                                                                  *)
(***************************************************************************)
MaxPathLen == 6     \* tokens in a raw inbound path (buildUpstreamMetadataUrl alone)
MaxParams == 1      \* parameters in an inbound query string
DocNodes == 1       \* objects and arrays in an upstream document the handler sees
NumReq == 2         \* requests in flight at once
MatchNodes == 3     \* objects and arrays in a document given to findFirstDirectMatch
WalkNodes == 2      \* objects and arrays in an object graph walked step by step

(***************************************************************************)
(* Token strings                                                           *)
(***************************************************************************)
SeqsUpTo(S, n) == UNION {[1..k -> S] : k \in 0..n}

StartsWithAt(s, sub, i) ==
    /\ i + Len(sub) <= Len(s)
    /\ \A j \in 1..Len(sub) : s[i + j] = sub[j]

\* String.prototype.indexOf: the 0-based position of the first occurrence, or -1
IndexOf(s, sub) ==
    LET hits == {i \in 0..Len(s) : StartsWithAt(s, sub, i)}
    IN IF hits = {} THEN -1 ELSE CHOOSE i \in hits : \A j \in hits : i <= j

\* String.prototype.slice(from)
Slice(s, from) == SubSeq(s, from + 1, Len(s))

EndsWith(s, suffix) ==
    /\ Len(suffix) <= Len(s)
    /\ SubSeq(s, Len(s) - Len(suffix) + 1, Len(s)) = suffix

\* String.prototype.toLowerCase on the tokens in use
LowerTok(t) ==
    CASE t = ".JSON" -> ".json"
      [] t = ".Json" -> ".json"
      [] t = "TAR.GZ" -> "tar.gz"
      [] t = "Zip" -> "zip"
      [] t = "EXE" -> "exe"
      [] OTHER -> t

toLowerCase(s) == [i \in 1..Len(s) |-> LowerTok(s[i])]

(***************************************************************************)
(* URL: new URL(...), the pathname/search/hash setters, searchParams       *)
(***************************************************************************)
RECURSIVE SplitSegs(_)
\* the segments of a path, given the tokens after its leading "/"
SplitSegs(s) ==
    IF s = <<>> THEN << <<>> >>
    ELSE IF Head(s) = "/" THEN << <<>> >> \o SplitSegs(Tail(s))
    ELSE LET r == SplitSegs(Tail(s)) IN << <<Head(s)>> \o Head(r) >> \o Tail(r)

RECURSIVE JoinSegs(_)
JoinSegs(segs) ==
    IF segs = <<>> THEN <<>> ELSE <<"/">> \o Head(segs) \o JoinSegs(Tail(segs))

RECURSIVE DotSegs(_, _)
\* the URL parser's path state: ".." drops the segment before it, "." drops
\* itself, and either one as the last segment leaves an empty last segment
DotSegs(segs, acc) ==
    IF segs = <<>> THEN acc
    ELSE LET seg == Head(segs)
             last == Len(segs) = 1
         IN IF seg = <<"..">>
            THEN DotSegs(Tail(segs),
                         (IF acc = <<>> THEN acc ELSE SubSeq(acc, 1, Len(acc) - 1))
                             \o (IF last THEN << <<>> >> ELSE <<>>))
            ELSE IF seg = <<".">>
            THEN DotSegs(Tail(segs), acc \o (IF last THEN << <<>> >> ELSE <<>>))
            ELSE DotSegs(Tail(segs), acc \o <<seg>>)

\* the pathname a URL ends up with when it is given path p (parsing, or the setter)
ParsePath(p) ==
    LET body == IF p # <<>> /\ Head(p) = "/" THEN Tail(p) ELSE p
    IN JoinSegs(DotSegs(SplitSegs(body), <<>>))

\* new URL(request.url): the request line's URL, its path normalised
NewURL(raw) ==
    [kind |-> "url", scheme |-> raw.scheme, host |-> raw.host,
     pathname |-> ParsePath(raw.path),
     search |-> raw.query, hash |-> raw.fragment]

\* URLSearchParams.has / delete on the list of (name, value) pairs
searchParamsHas(u, name) == \E i \in 1..Len(u.search) : u.search[i].name = name

searchParamsDelete(u, name) ==
    [u EXCEPT !.search = SelectSeq(u.search, LAMBDA p : p.name # name)]

UPSTREAM_HOST == [scheme |-> "https", host |-> "jbangdev.github.io"]
UPSTREAM_METADATA_PREFIX == <<"/", "jdkdb-data", "/", "metadata", "/">>

\* variants of buildUpstreamMetadataUrl: without the check of line 17, and
\* splitting at the last marker instead of the first
buildUpstreamMetadataUrl_NoCheck(inb) ==
    LET marker == <<"/", "metadata", "/">>
        idx == IndexOf(inb.pathname, marker)
    IN [kind |-> "url", scheme |-> UPSTREAM_HOST.scheme, host |-> UPSTREAM_HOST.host,
        pathname |-> ParsePath(UPSTREAM_METADATA_PREFIX
                                  \o Slice(inb.pathname, idx + Len(marker))),
        search |-> inb.search, hash |-> inb.hash]

buildUpstreamMetadataUrl_Last(inb) ==
    LET marker == <<"/", "metadata", "/">>
        hits == {i \in 0..Len(inb.pathname) : StartsWithAt(inb.pathname, marker, i)}
    IN IF hits = {} THEN Null
       ELSE LET idx == CHOOSE i \in hits : \A j \in hits : j <= i
            IN [kind |-> "url", scheme |-> UPSTREAM_HOST.scheme, host |-> UPSTREAM_HOST.host,
                pathname |-> ParsePath(UPSTREAM_METADATA_PREFIX
                                          \o Slice(inb.pathname, idx + Len(marker))),
                search |-> inb.search, hash |-> inb.hash]

buildUpstreamMetadataUrl(inb) ==
    LET marker == <<"/", "metadata", "/">>
        idx == IndexOf(inb.pathname, marker)
    IN IF idx = -1 THEN Null
       ELSE LET rest == Slice(inb.pathname, idx + Len(marker))
                upstream == [kind |-> "url", scheme |-> UPSTREAM_HOST.scheme,
                             host |-> UPSTREAM_HOST.host,
                             pathname |-> <<"/">>, search |-> <<>>, hash |-> ""]
            IN [upstream EXCEPT !.pathname = ParsePath(UPSTREAM_METADATA_PREFIX \o rest),
                                !.search = inb.search,
                                !.hash = inb.hash]

isDirectJsonRequest_CaseSensitive(u) ==
    searchParamsHas(u, "direct") /\ EndsWith(u.pathname, <<".json">>)

isDirectJsonRequest(u) ==
    searchParamsHas(u, "direct") /\ EndsWith(toLowerCase(u.pathname), <<".json">>)

(***************************************************************************)
(* Parsed JSON: a heap of objects and arrays, each with an identity (its   *)
(* index in the heap), whose slots hold primitives or references.  A       *)
(* string value is a token sequence; "" is <<>>.                           *)
(***************************************************************************)
Str(s) == [t |-> "str", s |-> s]
Num == [t |-> "num"]
JNull == [t |-> "null"]
Ref(id) == [t |-> "ref", id |-> id]

Arr(items) == [kind |-> "array", items |-> items]
Obj(entries) == [kind |-> "object", entries |-> entries]
Entry(k, v) == [k |-> k, v |-> v]

\* obj.<key>: the value of the entry named key, or undefined
Get(obj, key) ==
    LET hits == {i \in 1..Len(obj.entries) : obj.entries[i].k = key}
    IN IF hits = {} THEN [t |-> "undefined"] ELSE obj.entries[CHOOSE i \in hits : TRUE].v

targetTypes == {<<"tar.gz">>, <<"zip">>}

Match(u, fileType, path) ==
    [kind |-> "match", url |-> u, fileType |-> fileType, jsonPath |-> path]

\* the path of slot i (0-based) of an array, and of key k of an object
ItemPath(path, i) == path \o "[" \o ToString(i) \o "]"
KeyPath(path, k) == IF path # "" THEN path \o "." \o k ELSE k

\* lines 48-54: the node's own file_type / url test
DirectHit(obj, path) ==
    LET ft == Get(obj, "file_type")
        u == Get(obj, "url")
        fileType == IF ft.t = "str" THEN Str(toLowerCase(ft.s)) ELSE JNull
        urlv == IF u.t = "str" THEN u ELSE JNull
    IN IF /\ fileType.t = "str" /\ fileType.s # <<>>
          /\ urlv.t = "str" /\ urlv.s # <<>>
          /\ fileType.s \in targetTypes
       THEN Match(urlv.s, fileType.s, path)
       ELSE Null

\* the slots of a node in iteration order, each with the path walk gives it
Slots(node, path) ==
    IF node.kind = "array"
    THEN [i \in 1..Len(node.items) |-> [v |-> node.items[i], path |-> ItemPath(path, i - 1)]]
    ELSE [i \in 1..Len(node.entries) |->
             [v |-> node.entries[i].v, path |-> KeyPath(path, node.entries[i].k)]]

\* line 37: seen.has(node)
SeenBefore_Never(id, seen) == FALSE
SeenBefore(id, seen) == id \in seen

RECURSIVE walk(_, _, _, _)
RECURSIVE walkSlots(_, _, _, _)
\* walk(node, path) with the `seen` set threaded through: [hit, seen]
walk(heap, v, path, seen) ==
    IF v.t # "ref" THEN [hit |-> Null, seen |-> seen]
    ELSE IF SeenBefore(v.id, seen) THEN [hit |-> Null, seen |-> seen]
    ELSE LET node == heap[v.id]
             seen1 == seen \cup {v.id}
             own == IF node.kind = "array" THEN Null ELSE DirectHit(node, path)
         IN IF own # Null THEN [hit |-> own, seen |-> seen1]
            ELSE walkSlots(heap, Slots(node, path), 1, seen1)

\* the for loops of lines 41-44 and 56-59, from slot i on
walkSlots(heap, slots, i, seen) ==
    IF i > Len(slots) THEN [hit |-> Null, seen |-> seen]
    ELSE LET r == walk(heap, slots[i].v, slots[i].path, seen)
         IN IF r.hit # Null THEN r ELSE walkSlots(heap, slots, i + 1, r.seen)

findFirstDirectMatch(d) == walk(d.heap, d.root, "", {}).hit

(***************************************************************************)
(* new URL(string) without a base, as isValidAbsoluteUrl uses it, and the  *)
(* header check of the Response constructor                                *)
(***************************************************************************)
SchemeToks == {"https", "http", "mailto"}
SpecialSchemes == {"https", "http"}
HostToks == {"host", "dl.example"}
Space == " "
Newline == "LF"     \* the token for a line feed inside a string

RECURSIVE StripLeft(_)
StripLeft(s) == IF s # <<>> /\ Head(s) = Space THEN StripLeft(Tail(s)) ELSE s
RECURSIVE StripRight(_)
StripRight(s) ==
    IF s # <<>> /\ s[Len(s)] = Space THEN StripRight(SubSeq(s, 1, Len(s) - 1)) ELSE s

\* the URL parser: leading and trailing C0-control-or-space stripped, tab and
\* newline removed, then a scheme is required; a special scheme needs a host
UrlParses(s) ==
    LET t == SelectSeq(StripRight(StripLeft(s)), LAMBDA c : c # Newline)
    IN /\ Len(t) >= 2
       /\ t[1] \in SchemeToks
       /\ t[2] = ":"
       /\ t[1] \in SpecialSchemes =>
             LET afterSlashes == IF Len(t) >= 3 /\ t[3] = "//" THEN 4 ELSE 3
             IN Len(t) >= afterSlashes /\ t[afterSlashes] \in HostToks

isValidAbsoluteUrl(maybeUrl) == UrlParses(maybeUrl)

\* a header value the Headers object accepts: no NUL, CR or LF in it
HeaderValueOk(v) == \A i \in 1..Len(v) : v[i] # Newline

Response(status, headers, body) ==
    [kind |-> "response", status |-> status, headers |-> headers, body |-> body]
Throw(error) == [kind |-> "throw", error |-> error]

\* new Response(body, {status, headers}): throws a TypeError on a bad header value
NewResponse(status, headers, body) ==
    IF \A h \in DOMAIN headers : HeaderValueOk(headers[h])
    THEN Response(status, headers, body)
    ELSE Throw("TypeError: Invalid header value.")

notFoundWithContext(message, context) ==
    NewResponse(404, "content-type" :> <<"text/plain; charset=utf-8">>,
                [banner |-> "404 Not Found", message |-> message, context |-> context])

(***************************************************************************)
(* Documents: trees whose nodes are numbered in pre-order (so the first    *)
(* node in pre-order with a property is the one with the least number).    *)
(***************************************************************************)
RECURSIVE AncOrSelf(_, _)
AncOrSelf(p, i) == IF i = 1 THEN {1} ELSE {i} \cup AncOrSelf(p, p[i])

\* parent functions of the ordered trees on nodes 1..n, numbered in pre-order
TreeShapes(n) ==
    {p \in [2..n -> 1..n] :
        \A i \in 2..n : p[i] < i /\ (i > 2 => p[i] \in AncOrSelf(p, i - 1))}

Kids(p, n, i) == SelectSeq([j \in 1..n |-> j], LAMBDA j : j > 1 /\ p[j] = i)

KidKeys == <<"a", "b", "c", "d", "e">>

Undefined == [t |-> "undefined"]
OwnFields(ft, u) ==
    (IF ft = Undefined THEN <<>> ELSE <<Entry("file_type", ft)>>)
        \o (IF u = Undefined THEN <<>> ELSE <<Entry("url", u)>>)

\* a node of a document: an array (with or without a leading primitive
\* item), or an object with its own file_type / url fields
ArrayDecos == {[kind |-> "array", lead |-> b] : b \in BOOLEAN}
ObjectDeco(ft, u) == [kind |-> "object", ft |-> ft, url |-> u]

NodeOf(deco, kids) ==
    IF deco.kind = "array"
    THEN Arr((IF deco.lead THEN <<JNull>> ELSE <<>>) \o [i \in 1..Len(kids) |-> Ref(kids[i])])
    ELSE Obj(OwnFields(deco.ft, deco.url)
                \o [i \in 1..Len(kids) |-> Entry(KidKeys[i], Ref(kids[i]))])

TreeDocs(n, decos) ==
    {[heap |-> [i \in 1..n |-> NodeOf(d[i], Kids(p, n, i))], root |-> Ref(1)] :
        p \in TreeShapes(n), d \in [1..n -> decos]}

\* documents that are a bare primitive: "abc", 7, null
PrimDocs == {[heap |-> <<>>, root |-> v] : v \in {Str(<<"zip">>), Num, JNull}}

DocsUpTo(n, decos) == PrimDocs \cup UNION {TreeDocs(k, decos) : k \in 1..n}

FileUrl == <<"https", ":", "//", "host", "/file.zip">>
TarUrl == <<"http", ":", "//", "host", "/f.tar.gz">>

(***************************************************************************)
(* The handler's inputs: inbound requests and what the upstream answers    *)
(***************************************************************************)
Reqs == 1..NumReq

Params == {[name |-> "direct", value |-> ""], [name |-> "direct", value |-> "1"],
           [name |-> "Direct", value |-> ""], [name |-> "v", value |-> "1"]}
Queries == SeqsUpTo(Params, MaxParams)

\* raw request paths: with and without the marker, with each kind of ending
HandlerPaths ==
    { <<"/", "java", "/", "metadata", "/", "ga", "/", "foo", ".json">>,
      <<"/", "metadata", "/", "foo", ".JSON">>,
      <<"/", "metadata", "/", "foo", ".Json">>,
      <<"/", "metadata", "/", "foo", ".xml">>,
      <<"/", "metadata", "/", "foo", ".json", "/">>,
      <<"/", "metadata", "/", "json">>,
      <<"/", "metadata", "/">>,
      <<"/", "metadata", "/", "metadata", "/", "foo", ".json">>,
      <<"/", "java", "/", "..", "/", "metadata", "/", "foo", ".json">>,
      <<"/", "java", "/", "metadata">>,
      <<"/", "java", "/", "foo", ".json">>,
      <<"/", "metadata", "/", "..", "/", "foo", ".json">>,
      <<"/", "Metadata", "/", "foo", ".json">>,
      <<"/">> }

RawUrl(path, query, fragment, scheme, host) ==
    [scheme |-> scheme, host |-> host, path |-> path, query |-> query, fragment |-> fragment]

MethodsAndBodies == {[method |-> "GET", body |-> <<>>], [method |-> "POST", body |-> <<"payload">>]}

Requests ==
    {[url |-> RawUrl(p, q, "", "https", "proxy.example"), method |-> mb.method,
      headers |-> "user-agent" :> <<"jbang">>, body |-> mb.body] :
        p \in HandlerPaths, q \in Queries, mb \in MethodsAndBodies}

\* the own fields of the objects in the documents the upstream serves
HandlerDecos ==
    { [kind |-> "array", lead |-> FALSE],
      ObjectDeco(Undefined, Undefined),
      ObjectDeco(Str(<<"zip">>), Str(FileUrl)),
      ObjectDeco(Str(<<"TAR.GZ">>), Str(TarUrl)),
      ObjectDeco(Str(<<"exe">>), Str(FileUrl)),
      ObjectDeco(Str(<<"zip">>), Str(<<>>)),
      ObjectDeco(Str(<<"zip">>), Str(<<"not a url">>)),
      ObjectDeco(Str(<<"zip">>), Str(<<"https", ":", "//">>)),
      ObjectDeco(Str(<<"zip">>), Str(<<"mailto", ":", "x">>)),
      ObjectDeco(Str(<<"zip">>), Str(<<Space, "https", ":", "//", "host", "/file.zip">>)),
      ObjectDeco(Str(<<"zip">>), Str(<<"https", ":", "//", "host", "/a", Newline, "b.zip">>)) }

HandlerDocs == DocsUpTo(DocNodes, HandlerDecos)

TextBody(text) == [type |-> "text", text |-> text]
JsonBody(d) == [type |-> "json", doc |-> d]
Bodies(docs) == {TextBody("not json"), TextBody("")} \cup {JsonBody(d) : d \in docs}

Statuses == {200, 299, 300, 404, 500}
StatusText(st) ==
    CASE st = 200 -> "OK" [] st = 404 -> "Not Found" [] st = 500 -> "Internal Server Error"
      [] OTHER -> ""

UpstreamResponse(st, body) ==
    [kind |-> "response", status |-> st, statusText |-> StatusText(st),
     headers |-> "content-type" :> (IF body.type = "json" THEN <<"application/json">>
                                                           ELSE <<"text/html">>),
     body |-> body]
FetchFailure == [kind |-> "fail", error |-> "TypeError: fetch failed"]

FetchAnswers(docs) ==
    {FetchFailure} \cup {UpstreamResponse(st, b) : st \in Statuses, b \in Bodies(docs)}

\* what the upstream may answer to the JSON fetch of a direct request
HandlerAnswers == FetchAnswers(HandlerDocs)

\* what the upstream may answer to a proxied request: a failure, or any status
\* with an archive, an empty body or a JSON document
ProxyAnswers ==
    {FetchFailure} \cup
    {UpstreamResponse(st, b) :
        st \in Statuses,
        b \in {TextBody("archive bytes"), TextBody("")}
                \cup {JsonBody(d) : d \in TreeDocs(1, {ObjectDeco(Str(<<"zip">>), Str(FileUrl))})}}

\* Response.ok
Ok_Always(res) == TRUE
Ok(res) == res.status >= 200 /\ res.status <= 299

\* Response.json(): the body read and parsed, or the error it rejects with
JsonOf(body, readOk) ==
    IF ~readOk THEN [ok |-> FALSE, error |-> "TypeError: body stream failed"]
    ELSE IF body.type = "json" THEN [ok |-> TRUE, value |-> body.doc]
    ELSE [ok |-> FALSE, error |-> "SyntaxError: Unexpected token"]

(***************************************************************************)
(* The handler: fetch(request, env), lines 88-171.  One action per stretch *)
(* of code between two suspension points.                                  *)
(***************************************************************************)
MsgNoMarker == "Request path did not contain a /metadata/ segment, so it could not be proxied."
MsgFetchFailed == "Upstream fetch failed."
MsgNotOk == "Upstream returned non-OK status for JSON metadata."
MsgNotJson == "Upstream response was not valid JSON."
MsgNoEntry == "No entry found with file_type of tar.gz or zip and a url field."
MsgBadUrl == "Matched entry had an invalid URL."

\* the frame holding the locals of invocation r: each call of fetch() has its own
FrameShared(r) == 1
Frame(r) == r

\* new Request(upstreamUrl, request)
ProxyRequest_Get(up, req) ==
    [url |-> up, method |-> "GET", headers |-> req.headers, body |-> <<>>]
ProxyRequest(up, req) ==
    [url |-> up, method |-> req.method, headers |-> req.headers, body |-> req.body]

\* the request of lines 113-116
JsonRequest(up) ==
    [url |-> up, method |-> "GET", headers |-> "accept" :> <<"application/json">>, body |-> <<>>]

\* lines 147-169: from the parsed document to the response, with the steps run
Resolve(json, u, up) ==
    LET match == findFirstDirectMatch(json)
    IN IF match = Null
       THEN [steps |-> <<"traverse", "notfound">>,
             out |-> notFoundWithContext(MsgNoEntry, [requestUrl |-> u, upstreamUrl |-> up])]
       ELSE IF ~isValidAbsoluteUrl(match.url)
       THEN [steps |-> <<"traverse", "validate", "notfound">>,
             out |-> notFoundWithContext(MsgBadUrl,
                        [requestUrl |-> u, upstreamUrl |-> up, match |-> match])]
       ELSE [steps |-> <<"traverse", "validate", "redirect">>,
             out |-> NewResponse(302, ("location" :> match.url)
                                          @@ ("cache-control" :> <<"no-store">>), <<>>)]

\* lines 92-116, up to the first await (or the return of line 95 or 105)
Classify(r) ==
    /\ r \in active
    /\ pc[r] = "start"
    /\ LET u == NewURL(request[r].url)
           up == buildUpstreamMetadataUrl(u)
           direct == up # Null /\ isDirectJsonRequest(u)
           up1 == IF direct THEN searchParamsDelete(up, "direct") ELSE up
       IN /\ url' = [url EXCEPT ![Frame(r)] = u]
          /\ upstreamUrl' = [upstreamUrl EXCEPT ![Frame(r)] = up1]
          /\ IF up = Null
             THEN /\ outcome' = [outcome EXCEPT ![r] =
                        notFoundWithContext(MsgNoMarker,
                            [requestUrl |-> u, pathname |-> u.pathname])]
                  /\ pc' = [pc EXCEPT ![r] = "done"]
                  /\ trace' = [trace EXCEPT ![r] = <<"classify", "notfound">>]
                  /\ UNCHANGED fetches
             ELSE IF ~direct
             THEN /\ fetches' = [fetches EXCEPT ![r] = Append(@, ProxyRequest(up, request[r]))]
                  /\ pc' = [pc EXCEPT ![r] = "awaitProxy"]
                  /\ trace' = [trace EXCEPT ![r] = <<"classify", "proxy">>]
                  /\ UNCHANGED outcome
             ELSE /\ fetches' = [fetches EXCEPT ![r] = Append(@, JsonRequest(up1))]
                  /\ pc' = [pc EXCEPT ![r] = "awaitFetch"]
                  /\ trace' = [trace EXCEPT ![r] = <<"classify", "fetch">>]
                  /\ UNCHANGED outcome
    /\ UNCHANGED <<active, request, upstreamRes, answers>>

\* line 105: the promise of the proxied fetch settles and is the handler's result
ProxyReturn(r, upstream) ==
    /\ r \in active
    /\ pc[r] = "awaitProxy"
    /\ \E ans \in upstream :
          /\ answers' = [answers EXCEPT ![r].fetch = ans]
          /\ outcome' = [outcome EXCEPT ![r] =
                            IF ans.kind = "fail" THEN Throw(ans.error) ELSE ans]
    /\ pc' = [pc EXCEPT ![r] = "done"]
    /\ UNCHANGED <<active, request, url, upstreamUrl, upstreamRes, fetches, trace>>

\* lines 111-137: the JSON fetch settles; up to the await of upstreamRes.json()
FetchReturn(r, upstream) ==
    /\ r \in active
    /\ pc[r] = "awaitFetch"
    /\ \E ans \in upstream :
          /\ answers' = [answers EXCEPT ![r].fetch = ans]
          /\ IF ans.kind = "fail"
             THEN /\ outcome' = [outcome EXCEPT ![r] =
                        notFoundWithContext(MsgFetchFailed,
                            [requestUrl |-> url[Frame(r)],
                             upstreamUrl |-> upstreamUrl[Frame(r)],
                             error |-> ans.error])]
                  /\ pc' = [pc EXCEPT ![r] = "done"]
                  /\ trace' = [trace EXCEPT ![r] = @ \o <<"notfound">>]
                  /\ UNCHANGED upstreamRes
             ELSE /\ upstreamRes' = [upstreamRes EXCEPT ![Frame(r)] = ans]
                  /\ IF ~Ok(ans)
                     THEN /\ outcome' = [outcome EXCEPT ![r] =
                                notFoundWithContext(MsgNotOk,
                                    [requestUrl |-> url[Frame(r)],
                                     upstreamUrl |-> upstreamUrl[Frame(r)],
                                     upstreamStatus |-> ans.status,
                                     upstreamStatusText |-> ans.statusText,
                                     upstreamContentType |-> ans.headers["content-type"]])]
                          /\ pc' = [pc EXCEPT ![r] = "done"]
                          /\ trace' = [trace EXCEPT ![r] = @ \o <<"status", "notfound">>]
                     ELSE /\ pc' = [pc EXCEPT ![r] = "awaitJson"]
                          /\ trace' = [trace EXCEPT ![r] = @ \o <<"status">>]
                          /\ UNCHANGED outcome
    /\ UNCHANGED <<active, request, url, upstreamUrl, fetches>>

\* lines 135-169: the body read settles; the rest of the handler is synchronous.
\* The promise belongs to the response json() was called on, r's own.
JsonReturn(r) ==
    /\ r \in active
    /\ pc[r] = "awaitJson"
    /\ \E readOk \in BOOLEAN :
          LET parsed == JsonOf(answers[r].fetch.body, readOk)
              u == url[Frame(r)]
              up == upstreamUrl[Frame(r)]
          IN /\ answers' = [answers EXCEPT ![r].readOk = readOk]
             /\ IF ~parsed.ok
                THEN /\ outcome' = [outcome EXCEPT ![r] =
                            notFoundWithContext(MsgNotJson,
                                [requestUrl |-> u, upstreamUrl |-> up,
                                 upstreamContentType |->
                                     upstreamRes[Frame(r)].headers["content-type"],
                                 error |-> parsed.error])]
                     /\ trace' = [trace EXCEPT ![r] = @ \o <<"parse", "notfound">>]
                ELSE LET res == Resolve(parsed.value, u, up)
                     IN /\ outcome' = [outcome EXCEPT ![r] = res.out]
                        /\ trace' = [trace EXCEPT ![r] = @ \o <<"parse">> \o res.steps]
    /\ pc' = [pc EXCEPT ![r] = "done"]
    /\ UNCHANGED <<active, request, url, upstreamUrl, upstreamRes, fetches>>

NoAnswers == [fetch |-> Null, readOk |-> TRUE]

\* the state after the runtime has handed the handler the requests of `act`
HandlerInit(act, requests) ==
    /\ active = act
    /\ \E given \in [act -> requests] :
          request = [r \in Reqs |-> IF r \in act THEN given[r] ELSE Null]
    /\ pc = [r \in Reqs |-> IF r \in act THEN "start" ELSE "idle"]
    /\ url = [r \in Reqs |-> Null]
    /\ upstreamUrl = [r \in Reqs |-> Null]
    /\ upstreamRes = [r \in Reqs |-> Null]
    /\ fetches = [r \in Reqs |-> <<>>]
    /\ answers = [r \in Reqs |-> NoAnswers]
    /\ trace = [r \in Reqs |-> <<>>]
    /\ outcome = [r \in Reqs |-> Null]

HandlerIdle == HandlerInit({}, {})
BuildIdle == inbound = Null /\ built = Null
MatchIdle == doc = Null /\ found = Null
WalkIdle ==
    /\ wheap = <<>> /\ wcall = Null /\ wstack = <<>> /\ wret = Null
    /\ wseen = {} /\ wvisits = <<>> /\ wresult = Null

Init == HandlerInit({1}, Requests) /\ BuildIdle /\ MatchIdle /\ WalkIdle

Next ==
    \E r \in Reqs :
        \/ Classify(r) /\ UNCHANGED <<bvars, mvars, wvars>>
        \/ ProxyReturn(r, ProxyAnswers) /\ UNCHANGED <<bvars, mvars, wvars>>
        \/ FetchReturn(r, HandlerAnswers) /\ UNCHANGED <<bvars, mvars, wvars>>
        \/ JsonReturn(r) /\ UNCHANGED <<bvars, mvars, wvars>>

Spec == Init /\ [][Next]_vars

(***************************************************************************)
(* What the claims speak of, stated on the requests and answers themselves *)
(***************************************************************************)
\* the inbound URL's path contains "/metadata/" at token position i (0-based)
MarkerAt(p, i) ==
    i + 3 <= Len(p) /\ p[i + 1] = "/" /\ p[i + 2] = "metadata" /\ p[i + 3] = "/"
HasMarker(p) == \E i \in 0..Len(p) : MarkerAt(p, i)

PathOf(req) == NewURL(req.url).pathname

HasDirectParam(req) == \E i \in 1..Len(req.url.query) : req.url.query[i].name = "direct"
EndsInDotJson(p) == p # <<>> /\ p[Len(p)] \in {".json", ".JSON", ".Json"}
IsDirect(req) == HasDirectParam(req) /\ EndsInDotJson(PathOf(req))

Is2xx(st) == st \in 200..299

Started(r) == r \in active /\ pc[r] # "start"
Done(r) == r \in active /\ pc[r] = "done"

Is404(out, message) ==
    /\ out.kind = "response"
    /\ out.status = 404
    /\ out.headers = ("content-type" :> <<"text/plain; charset=utf-8">>)
    /\ out.body.banner = "404 Not Found"
    /\ out.body.message = message

\* C1: a request whose path has no "/metadata/" gets the missing-marker 404,
\* whatever its method and query, and no upstream fetch is ever issued for it
C1_NoMarkerIs404 ==
    \A r \in active :
        ~HasMarker(PathOf(request[r])) =>
            /\ fetches[r] = <<>>
            /\ Started(r) => /\ pc[r] = "done"
                             /\ Is404(outcome[r], MsgNoMarker)

C1_Witness ==
    \E r \in active :
        /\ ~HasMarker(PathOf(request[r]))
        /\ IsDirect(request[r])
        /\ request[r].method = "POST"
        /\ Done(r)

\* C3: a request with the marker takes the direct path iff its query has a
\* parameter named direct and its path ends, in any case, with .json;
\* every other such request is proxied
C3_DirectIff ==
    \A r \in active :
        (Started(r) /\ HasMarker(PathOf(request[r]))) =>
            /\ Len(trace[r]) >= 2
            /\ (trace[r][2] = "fetch") <=> IsDirect(request[r])
            /\ (trace[r][2] = "proxy") <=> ~IsDirect(request[r])

C3_Witness ==
    \E r \in active :
        /\ Started(r)
        /\ HasMarker(PathOf(request[r]))
        /\ request[r].url.query = <<[name |-> "direct", value |-> "1"]>>
        /\ PathOf(request[r])[Len(PathOf(request[r]))] = ".JSON"
        /\ trace[r][2] = "fetch"

TookDirectPath(r) == Len(trace[r]) >= 2 /\ trace[r][2] = "fetch"

\* C4: on the direct path the handler always returns a response, never throws,
\* and the response is never a 5xx; each failure gives the 404 diagnostic
C4_DirectNeverThrows ==
    \A r \in active :
        (Done(r) /\ TookDirectPath(r)) =>
            /\ outcome[r].kind = "response"
            /\ ~(outcome[r].status >= 500 /\ outcome[r].status <= 599)
            /\ trace[r][Len(trace[r])] = "notfound" => outcome[r].status = 404

\* the matched url has a scheme and an authority: scheme ":" "//" host ...
HasSchemeAndAuthority(s) ==
    LET t == StripRight(StripLeft(s))
    IN Len(t) >= 4 /\ t[1] \in SchemeToks /\ t[2] = ":" /\ t[3] = "//" /\ t[4] \in HostToks

\* the first qualifying entry of a document, as the handler finds it
MatchedIn(ans) ==
    IF ans.fetch.kind = "response" /\ ans.fetch.body.type = "json"
    THEN findFirstDirectMatch(ans.fetch.body.doc) ELSE Null

Handler302(r) ==
    /\ outcome[r].kind = "response"
    /\ outcome[r].status = 302
    /\ trace[r][Len(trace[r])] = "redirect"

\* C5: the handler produces a 302 iff the request is direct and has the marker,
\* the fetch ended 2xx, the body parsed, a match was found and its url is a
\* valid absolute URL with scheme and authority; then Location is that url
\* as found, Cache-Control is no-store and the body is empty
C5_RedirectIff ==
    \A r \in active :
        Done(r) =>
            LET m == MatchedIn(answers[r])
            IN /\ Handler302(r) <=>
                    /\ IsDirect(request[r])
                    /\ HasMarker(PathOf(request[r]))
                    /\ answers[r].fetch.kind = "response"
                    /\ Is2xx(answers[r].fetch.status)
                    /\ answers[r].fetch.body.type = "json"
                    /\ answers[r].readOk
                    /\ m # Null
                    /\ HasSchemeAndAuthority(m.url)
               /\ Handler302(r) =>
                    /\ outcome[r].headers["location"] = m.url
                    /\ outcome[r].headers["cache-control"] = <<"no-store">>
                    /\ outcome[r].body = <<>>

\* the upstream URL the spec gives for a request whose path has the marker:
\* the fixed origin, the fixed prefix, what follows the first marker, and the
\* inbound query and fragment
ExpectedUpstream(rawUrl) ==
    LET p == NewURL(rawUrl).pathname
        i == CHOOSE i \in 0..Len(p) : MarkerAt(p, i) /\ \A j \in 0..(i - 1) : ~MarkerAt(p, j)
    IN [kind |-> "url", scheme |-> "https", host |-> "jbangdev.github.io",
        pathname |-> <<"/", "jdkdb-data", "/", "metadata", "/">> \o SubSeq(p, i + 4, Len(p)),
        search |-> rawUrl.query, hash |-> rawUrl.fragment]

\* C7: a non-direct request with the marker issues exactly one upstream
\* request, to the computed upstream URL with the inbound method, headers and
\* body, and its outcome is that fetch's outcome: the response verbatim, or
\* the transport failure thrown on to the caller
C7_ProxyVerbatim ==
    \A r \in active :
        (Started(r) /\ HasMarker(PathOf(request[r])) /\ ~IsDirect(request[r])) =>
            /\ fetches[r] = << [url |-> ExpectedUpstream(request[r].url),
                                method |-> request[r].method,
                                headers |-> request[r].headers,
                                body |-> request[r].body] >>
            /\ Done(r) =>
                 outcome[r] = IF answers[r].fetch.kind = "fail"
                              THEN Throw(answers[r].fetch.error)
                              ELSE answers[r].fetch

C7_Witness ==
    \E r \in active :
        /\ Done(r)
        /\ HasMarker(PathOf(request[r]))
        /\ HasDirectParam(request[r])
        /\ ~IsDirect(request[r])
        /\ request[r].method = "POST"
        /\ outcome[r].kind = "response"
        /\ outcome[r].status = 500

LinearRuns ==
    { <<"classify", "notfound">>,
      <<"classify", "proxy">>,
      <<"classify", "fetch", "notfound">>,
      <<"classify", "fetch", "status", "notfound">>,
      <<"classify", "fetch", "status", "parse", "notfound">>,
      <<"classify", "fetch", "status", "parse", "traverse", "notfound">>,
      <<"classify", "fetch", "status", "parse", "traverse", "validate", "notfound">>,
      <<"classify", "fetch", "status", "parse", "traverse", "validate", "redirect">> }

IsPrefix(s, t) == Len(s) <= Len(t) /\ SubSeq(t, 1, Len(s)) = s
Has(s, step) == \E i \in 1..Len(s) : s[i] = step

\* the run a direct request must have made, given what the upstream answered
DirectRunFor(ans) ==
    IF ans.fetch.kind = "fail" THEN <<"classify", "fetch", "notfound">>
    ELSE IF ~Is2xx(ans.fetch.status) THEN <<"classify", "fetch", "status", "notfound">>
    ELSE IF ~ans.readOk \/ ans.fetch.body.type # "json"
    THEN <<"classify", "fetch", "status", "parse", "notfound">>
    ELSE <<"classify", "fetch", "status", "parse", "traverse">>

\* C8 (as amended): one request is a linear run, Classify then Proxy, or Fetch
\* JSON, Validate Status, Parse, Traverse, Validate Match URL, Redirect; at most
\* one upstream fetch is issued; the first failing step ends the run with the
\* 404 diagnostic and no later step runs; and a request that is done has
\* exactly one terminal outcome, a response or an error thrown to the caller
C8_LinearRun ==
    \A r \in active :
        /\ \E run \in LinearRuns : IsPrefix(trace[r], run)
        /\ Len(fetches[r]) <= 1
        /\ (outcome[r] # Null) <=> Done(r)
        /\ Done(r) =>
             /\ trace[r] \in LinearRuns
             /\ outcome[r].kind \in {"response", "throw"}
             /\ trace[r][Len(trace[r])] = "notfound" => Is404(outcome[r], outcome[r].body.message)
             /\ TookDirectPath(r) => IsPrefix(DirectRunFor(answers[r]), trace[r])
             /\ outcome[r].kind = "throw" => trace[r][Len(trace[r])] \in {"proxy", "redirect"}

C8_Witness ==
    \E r \in active :
        /\ Done(r)
        /\ answers[r].fetch.kind = "response"
        /\ answers[r].fetch.status = 500
        /\ MatchedIn(answers[r]) # Null
        /\ trace[r] = <<"classify", "fetch", "status", "notfound">>

\* C8 as stated: once the upstream has answered or failed, the request ends in
\* a terminal response
C8_TerminalResponse ==
    \A r \in active : Done(r) => outcome[r].kind = "response"

(***************************************************************************)
(* buildUpstreamMetadataUrl on its own, over every raw inbound URL         *)
(***************************************************************************)
BuildPathToks == {"/", "metadata", "ga", ".."}
BuildQueries ==
    { <<>>, <<[name |-> "direct", value |-> ""]>>,
      <<[name |-> "v", value |-> "1"], [name |-> "direct", value |-> "1"]>> }
Origins == {[scheme |-> "https", host |-> "proxy.example"], [scheme |-> "http", host |-> "localhost"]}

BuildInit ==
    /\ \E p \in SeqsUpTo(BuildPathToks, MaxPathLen - 1), q \in BuildQueries,
          f \in {"", "#top"}, o \in Origins :
            inbound = RawUrl(<<"/">> \o p, q, f, o.scheme, o.host)
    /\ built = Null
    /\ HandlerIdle /\ MatchIdle /\ WalkIdle

Build ==
    /\ inbound # Null
    /\ built = Null
    /\ built' = [result |-> buildUpstreamMetadataUrl(NewURL(inbound))]
    /\ UNCHANGED <<inbound, hvars, mvars, wvars>>

BuildSpec == BuildInit /\ [][Build]_vars

\* C2: for a path with the marker the result has the fixed upstream scheme and
\* host, the path /jdkdb-data/metadata/<rest> with <rest> what follows the
\* FIRST "/metadata/", and the inbound query string and fragment
C2_UpstreamUrl ==
    (built # Null /\ HasMarker(NewURL(inbound).pathname)) =>
        /\ built.result = ExpectedUpstream(inbound)
        /\ built.result.scheme = "https"
        /\ built.result.host = "jbangdev.github.io"

C2_Witness ==
    /\ built # Null
    /\ inbound.scheme = "http"
    /\ inbound.fragment = "#top"
    /\ Len(inbound.query) = 2
    /\ Cardinality({i \in 0..Len(inbound.path) : MarkerAt(NewURL(inbound).pathname, i)}) = 2
    /\ built.result # Null

(***************************************************************************)
(* findFirstDirectMatch on its own, over every document                    *)
(***************************************************************************)
MatchDecos ==
    ArrayDecos \cup
    { ObjectDeco(Undefined, Undefined),
      ObjectDeco(Str(<<"zip">>), Str(FileUrl)),
      ObjectDeco(Str(<<"TAR.GZ">>), Str(TarUrl)),
      ObjectDeco(Str(<<"exe">>), Str(<<"x">>)),
      ObjectDeco(Str(<<"zip">>), Num),
      ObjectDeco(Str(<<"zip">>), Str(<<>>)),
      ObjectDeco(Num, Str(FileUrl)),
      ObjectDeco(Str(<<"zip">>), Undefined) }

MatchInit ==
    /\ doc \in DocsUpTo(MatchNodes, MatchDecos)
    /\ found = Null
    /\ HandlerIdle /\ BuildIdle /\ WalkIdle

Find ==
    /\ doc # Null
    /\ found = Null
    /\ found' = [result |-> findFirstDirectMatch(doc)]
    /\ UNCHANGED <<doc, hvars, bvars, wvars>>

MatchSpec == MatchInit /\ [][Find]_vars

\* the file type of an object, case folded: "zip", "Zip" and "ZIP" are one type
FoldedType(node) ==
    LET ft == Get(node, "file_type")
    IN IF ft.t # "str" THEN <<>>
       ELSE IF ft.s \in {<<"zip">>, <<"Zip">>, <<"ZIP">>} THEN <<"zip">>
       ELSE IF ft.s \in {<<"tar.gz">>, <<"TAR.GZ">>} THEN <<"tar.gz">>
       ELSE <<>>

\* an object with a qualifying file_type and a string url
Qualifies(node) ==
    /\ node.kind = "object"
    /\ FoldedType(node) # <<>>
    /\ Get(node, "url").t = "str"

\* the same, the url not empty
QualifiesNonEmpty(node) == Qualifies(node) /\ Get(node, "url").s # <<>>

\* the slot of node j that refers to node id
SlotOf(d, j, id) ==
    LET n == d.heap[j]
    IN IF n.kind = "array"
       THEN {[index |-> i - 1] : i \in {i \in 1..Len(n.items) : n.items[i] = Ref(id)}}
       ELSE {[key |-> n.entries[i].k] : i \in {i \in 1..Len(n.entries) : n.entries[i].v = Ref(id)}}

RECURSIVE JsonPathTo(_, _)
\* the dotted/bracketed path from the root to node id of a tree document
JsonPathTo(d, id) ==
    IF id = 1 THEN ""
    ELSE LET j == CHOOSE j \in 1..(id - 1) : SlotOf(d, j, id) # {}
             slot == CHOOSE x \in SlotOf(d, j, id) : TRUE
             up == JsonPathTo(d, j)
         IN IF d.heap[j].kind = "array"
            THEN up \o "[" \o ToString(slot.index) \o "]"
            ELSE IF up = "" THEN slot.key ELSE up \o "." \o slot.key

\* the first node in pre-order (the least number) that qualifies, as a match
FirstOf(d, Q(_)) ==
    LET hits == {i \in DOMAIN d.heap : Q(d.heap[i])}
    IN IF d.root.t # "ref" \/ hits = {} THEN Null
       ELSE LET i == CHOOSE i \in hits : \A j \in hits : i <= j
            IN Match(Get(d.heap[i], "url").s, FoldedType(d.heap[i]), JsonPathTo(d, i))

\* C6: findFirstDirectMatch returns the first node in pre-order that is an
\* object with a file_type equal, in any case, to tar.gz or zip and a string
\* url, with its url, lower-cased type and path; and no match iff there is none
C6_FirstQualifying ==
    found # Null => found.result = FirstOf(doc, Qualifies)

\* what the code does: an entry whose url is the empty string is passed over
FirstNonEmptyQualifying ==
    found # Null => found.result = FirstOf(doc, QualifiesNonEmpty)

NonEmptyReached ==
    /\ found # Null
    /\ found.result # Null
    /\ found.result.jsonPath = "a[1]"
    /\ found.result.fileType = <<"tar.gz">>

(***************************************************************************)
(* Requests in flight at once: every interleaving of the two awaits        *)
(***************************************************************************)
ConcRequests ==
    { [url |-> RawUrl(<<"/", "metadata", "/", "foo", ".json">>,
                      <<[name |-> "direct", value |-> ""]>>, "", "https", "proxy.example"),
       method |-> "GET", headers |-> "user-agent" :> <<"jbang">>, body |-> <<>>],
      [url |-> RawUrl(<<"/", "java", "/", "metadata", "/", "ga", "/", "foo", ".JSON">>,
                      <<[name |-> "direct", value |-> "1"]>>, "", "https", "proxy.example"),
       method |-> "GET", headers |-> "user-agent" :> <<"curl">>, body |-> <<>>],
      [url |-> RawUrl(<<"/", "metadata", "/", "foo", ".xml">>,
                      <<>>, "", "https", "proxy.example"),
       method |-> "POST", headers |-> "user-agent" :> <<"jbang">>, body |-> <<"payload">>],
      [url |-> RawUrl(<<"/", "java", "/", "foo", ".json">>,
                      <<[name |-> "direct", value |-> ""]>>, "", "https", "proxy.example"),
       method |-> "GET", headers |-> "user-agent" :> <<"jbang">>, body |-> <<>>] }

ConcDocs ==
    TreeDocs(1, { ObjectDeco(Str(<<"zip">>), Str(FileUrl)),
                  ObjectDeco(Str(<<"zip">>), Str(<<"not a url">>)),
                  ObjectDeco(Str(<<"exe">>), Str(FileUrl)) })

ConcAnswers ==
    {FetchFailure, UpstreamResponse(500, TextBody("")), UpstreamResponse(200, TextBody("not json"))}
        \cup {UpstreamResponse(200, JsonBody(d)) : d \in ConcDocs}

ConcInit == HandlerInit(Reqs, ConcRequests) /\ BuildIdle /\ MatchIdle /\ WalkIdle

ConcNext ==
    \E r \in Reqs :
        \/ Classify(r) /\ UNCHANGED <<bvars, mvars, wvars>>
        \/ ProxyReturn(r, ConcAnswers) /\ UNCHANGED <<bvars, mvars, wvars>>
        \/ FetchReturn(r, ConcAnswers) /\ UNCHANGED <<bvars, mvars, wvars>>
        \/ JsonReturn(r) /\ UNCHANGED <<bvars, mvars, wvars>>

ConcSpec == ConcInit /\ [][ConcNext]_vars

\* the response to request req handled on its own, the upstream answering
\* ans.fetch to its fetch and ans.readOk to its body read
Alone(req, ans) ==
    LET u == NewURL(req.url)
        up == buildUpstreamMetadataUrl(u)
        up1 == searchParamsDelete(up, "direct")
        res == ans.fetch
        parsed == JsonOf(res.body, ans.readOk)
    IN IF up = Null
       THEN notFoundWithContext(MsgNoMarker, [requestUrl |-> u, pathname |-> u.pathname])
       ELSE IF ~isDirectJsonRequest(u)
       THEN (IF res.kind = "fail" THEN Throw(res.error) ELSE res)
       ELSE IF res.kind = "fail"
       THEN notFoundWithContext(MsgFetchFailed,
                [requestUrl |-> u, upstreamUrl |-> up1, error |-> res.error])
       ELSE IF ~Ok(res)
       THEN notFoundWithContext(MsgNotOk,
                [requestUrl |-> u, upstreamUrl |-> up1, upstreamStatus |-> res.status,
                 upstreamStatusText |-> res.statusText,
                 upstreamContentType |-> res.headers["content-type"]])
       ELSE IF ~parsed.ok
       THEN notFoundWithContext(MsgNotJson,
                [requestUrl |-> u, upstreamUrl |-> up1,
                 upstreamContentType |-> res.headers["content-type"],
                 error |-> parsed.error])
       ELSE Resolve(parsed.value, u, up1).out

\* C9: with any number of requests in flight and any interleaving of their
\* awaits, each request's response is the one it would get handled alone: it
\* depends only on that request and on the upstream's answers to it
C9_Independent ==
    \A r \in active : Done(r) => outcome[r] = Alone(request[r], answers[r])

C9_Witness ==
    \E r, q \in active :
        /\ r # q
        /\ request[r] # request[q]
        /\ IsDirect(request[r]) /\ IsDirect(request[q])
        /\ pc[r] = "awaitJson"
        /\ Done(q)
        /\ Handler302(q)
        /\ Len(fetches[r]) = 1

(***************************************************************************)
(* findFirstDirectMatch step by step, on object graphs that may hold       *)
(* cycles and shared references: one action per call, loop turn and return *)
(* of walk (lines 35-61)                                                   *)
(***************************************************************************)
WalkIds == 1..WalkNodes
RefSeqs == UNION {[1..k -> {Ref(i) : i \in WalkIds}] : k \in 0..2}

WalkNodeChoices ==
    {Arr(items) : items \in RefSeqs}
        \cup {Obj(OwnFields(Str(<<"exe">>), Undefined)
                    \o [i \in 1..Len(kids) |-> Entry(KidKeys[i], kids[i])]) : kids \in RefSeqs}
        \cup {Obj(OwnFields(Str(<<"zip">>), Str(FileUrl)))}

WalkGraphs(ids) == {[heap |-> h, root |-> Ref(1)] : h \in [ids -> WalkNodeChoices]}

NoCall == [kind |-> "none"]
NoRet == [kind |-> "none"]
Call(v, path) == [kind |-> "call", v |-> v, path |-> path]
Ret(hit) == [kind |-> "ret", hit |-> hit]

WalkInit ==
    /\ wheap \in WalkGraphs(WalkIds)
    /\ wcall = Call(wheap.root, "")
    /\ wstack = <<>>
    /\ wret = NoRet
    /\ wseen = {}
    /\ wvisits = <<>>
    /\ wresult = Null
    /\ HandlerIdle /\ BuildIdle /\ MatchIdle

\* lines 36-54: a call of walk, up to its first loop turn or its return
WalkEnter ==
    /\ wcall # NoCall
    /\ LET v == wcall.v
       IN IF v.t # "ref" \/ (v.t = "ref" /\ SeenBefore(v.id, wseen))
          THEN /\ wret' = Ret(Null)
               /\ UNCHANGED <<wstack, wseen, wvisits>>
          ELSE LET node == wheap.heap[v.id]
                   own == IF node.kind = "array" THEN Null ELSE DirectHit(node, wcall.path)
               IN /\ wseen' = wseen \cup {v.id}
                  /\ wvisits' = Append(wvisits, v)
                  /\ IF own # Null
                     THEN wret' = Ret(own) /\ UNCHANGED wstack
                     ELSE /\ wstack' = Append(wstack, [slots |-> Slots(node, wcall.path), i |-> 1])
                          /\ UNCHANGED wret
    /\ wcall' = NoCall
    /\ UNCHANGED <<wheap, wresult, hvars, bvars, mvars>>

\* lines 41-45 and 56-60: the loop of the innermost call takes its next slot,
\* or ends and the call returns null
WalkLoop ==
    /\ wcall = NoCall /\ wret = NoRet /\ wstack # <<>>
    /\ LET top == wstack[Len(wstack)]
       IN IF top.i > Len(top.slots)
          THEN /\ wstack' = SubSeq(wstack, 1, Len(wstack) - 1)
               /\ wret' = Ret(Null)
               /\ UNCHANGED wcall
          ELSE /\ wcall' = Call(top.slots[top.i].v, top.slots[top.i].path)
               /\ UNCHANGED <<wstack, wret>>
    /\ UNCHANGED <<wheap, wseen, wvisits, wresult, hvars, bvars, mvars>>

\* lines 43 and 58 (`if (hit) return hit`), and line 63 for the outermost call
WalkReturn ==
    /\ wret # NoRet
    /\ IF wstack = <<>>
       THEN /\ wresult' = [result |-> wret.hit]
            /\ wret' = NoRet
            /\ UNCHANGED wstack
       ELSE IF wret.hit # Null
       THEN /\ wstack' = SubSeq(wstack, 1, Len(wstack) - 1)
            /\ UNCHANGED <<wret, wresult>>
       ELSE /\ wstack' = [wstack EXCEPT ![Len(wstack)].i = @ + 1]
            /\ wret' = NoRet
            /\ UNCHANGED wresult
    /\ UNCHANGED <<wheap, wcall, wseen, wvisits, hvars, bvars, mvars>>

WalkNext == WalkEnter \/ WalkLoop \/ WalkReturn

\* walk is synchronous code: a call that can take a step takes it
WalkSpec == WalkInit /\ [][WalkNext]_vars /\ WF_vars(WalkNext)

WalkDone == wresult # Null

\* every object or array is expanded at most once, and only objects and
\* arrays are expanded
ExpandedOnce ==
    /\ \A i, j \in 1..Len(wvisits) : wvisits[i] = wvisits[j] => i = j
    /\ \A i \in 1..Len(wvisits) : wvisits[i].t = "ref"

\* C10: findFirstDirectMatch terminates on every finite object graph, cyclic
\* or with shared references; it expands each object or array at most once
\* and never descends into a primitive
C10_WalkTerminates == []ExpandedOnce /\ <>WalkDone

\* a walk that has ended on a graph with a cycle through its root
C10_Witness ==
    /\ WalkDone
    /\ wresult.result = Null
    /\ wheap.heap[1].kind = "array"
    /\ \E i \in 1..Len(wheap.heap[1].items) : wheap.heap[1].items[i] = Ref(2)
    /\ wheap.heap[2].kind = "object"
    /\ \E i \in 1..Len(wheap.heap[2].entries) : wheap.heap[2].entries[i].v = Ref(1)
    /\ Len(wvisits) = 2

\* the step-by-step walk and the recursive one agree
WalkAgrees == WalkDone => wresult.result = findFirstDirectMatch(wheap)

====
